---- MODULE Spec2Model ----
(***************************************************************************)
(* Model of the two aggregation programs of multi-proxy-config-fetcher:     *)
(*   src/src/fetch_configs.py  ConfigFetcher.fetch_all_configs              *)
(*   src/src/config.py         ConfigFetcher.get_all                        *)
(* One run of either program: a thread pool runs one task per enabled       *)
(* channel, every task reads and writes the shared set seen_configs, the    *)
(* main thread then merges the tasks' lists and selects the output.         *)
(*                                                                         *)
(* Strings.  Every string the programs handle here is a scheme token, or a  *)
(* scheme token followed by "://" and a payload.  A string is the record    *)
(*   [sch, sep, body, noise]                                                *)
(* sch the token as written (case kept), sep whether "://" and a payload    *)
(* follow, body the payload's identity (0 when sep is FALSE), noise whether *)
(* the payload carries formatting noise that clean_config removes.          *)
(* "vless" is Tok("vless"), "vless://<payload 1>" is Cfg("vless", 1).       *)
(*                                                                         *)
(* ProxyConfig, ConfigValidator and user_settings are imported by both      *)
(* programs and are not part of the sources; what the model needs of them   *)
(* is taken from the specification (spec.md, sections 3, 4.4 and 6).        *)
(***************************************************************************)
EXTENDS Integers, Sequences, FiniteSets, TLC

\* ------------------------------------------------------------------ bounds
NumChannels == 2
MaxWords == 1
MaxRetriesBound == 3
MaxLen == 3

\* -------------------------------------------------------- program constants
BACKOFF_CAP == 30
BALANCE_LIMIT == 150
MAX_WORKERS_FETCH == 10
MAX_WORKERS_CONFIG == 20
MAXIMUM_POWER_LIMIT == 150

\* ----------------------------------------------------------------- strings
Tok(t) == [sch |-> t, sep |-> FALSE, body |-> 0, noise |-> FALSE]
Cfg(t, b) == [sch |-> t, sep |-> TRUE, body |-> b, noise |-> FALSE]

\* str.lower() of a scheme token
Lower(t) == IF t = "VLESS" THEN "vless" ELSE IF t = "HY2" THEN "hy2" ELSE t

\* s.startswith(p + "://") for a scheme token p
StartsWith(s, p) == s.sep /\ s.sch = p

\* s.split('://')[0].lower() + '://', named by its token
SchemeOf(s) == Lower(s.sch)

Range(f) == {f[i] : i \in DOMAIN f}

Min(a, b) == IF a <= b THEN a ELSE b

Take(s, n) == IF n >= Len(s) THEN s ELSE SubSeq(s, 1, n)

\* a selector that returns all it has gathered
SliceKeepsAll(s, n) == s

\* Python's s[:n], n possibly negative
Slice(s, n) == IF n >= 0 THEN Take(s, n) ELSE Take(s, IF Len(s) + n > 0 THEN Len(s) + n ELSE 0)

RECURSIVE Concat(_)
Concat(ss) == IF ss = <<>> THEN <<>> ELSE Head(ss) \o Concat(Tail(ss))

RECURSIVE Perms(_)
Perms(S) == IF S = {} THEN {<<>>} ELSE UNION {{<<x>> \o p : p \in Perms(S \ {x})} : x \in S}

SeqsUpTo(S, n) == UNION {[1..k -> S] : k \in 0..n}

\* ---------------------------------------------------------------- registry
\* ProxyConfig.SUPPORTED_PROTOCOLS: an insertion-ordered dict, scheme -> info.
\* A registry is the sequence of its items; a scheme "x://" is named by x.
Entry(s, al, en, pr) == [scheme |-> s, aliases |-> al, enabled |-> en, priority |-> pr]

RegistryA == <<Entry("hysteria2", {"hy2"}, TRUE, 2), Entry("vless", {}, TRUE, 3),
               Entry("vmess", {}, FALSE, 1), Entry("ss", {}, TRUE, 1),
               Entry("trojan", {}, TRUE, 2), Entry("tuic", {}, TRUE, 1)>>

RegistryB == <<Entry("ss", {}, TRUE, 1), Entry("trojan", {}, TRUE, 2),
               Entry("vless", {}, TRUE, 3), Entry("hysteria2", {"hy2"}, FALSE, 3),
               Entry("vmess", {}, TRUE, 2), Entry("tuic", {}, TRUE, 0)>>

Registries == {RegistryA, RegistryB}

\* ProxyConfig.is_protocol_enabled(scheme)
is_protocol_enabled(reg, p) == \E i \in DOMAIN reg : reg[i].scheme = p /\ reg[i].enabled

\* --------------------------------------------------------------- validator
\* ConfigValidator.normalize_hysteria2_protocol: hy2:// -> hysteria2://
normalize_hysteria2_protocol(s) == IF StartsWith(s, "hy2") THEN [s EXCEPT !.sch = "hysteria2"] ELSE s

\* ConfigValidator.clean_config: strips formatting noise
clean_config(s) == [s EXCEPT !.noise = FALSE]

\* ConfigValidator.clean_vmess_config
clean_vmess_config(s) == [s EXCEPT !.noise = FALSE]

\* Payloads the protocol-specific rules reject
RejectedBodies == {3}

\* ConfigValidator.validate_protocol_config(config, protocol)
validate_protocol_config(s, p) == s.sep /\ s.body \notin RejectedBodies

\* --------------------------------------------------------------- extraction
\* The scheme alternation of each program's protocol_pattern.
PATTERN_FETCH == {"vless", "vmess", "ss", "trojan", "hy2", "shadowsocks"}

PATTERN_CONFIG == {"vless", "vmess", "ss", "trojan", "hy2", "hysteria2", "tuic", "wireguard"}

\* A word of the text matches  (alt):\/\/[^\s<>"'|]+  under re.IGNORECASE
Matches(pattern, w) == w.sep /\ Lower(w.sch) \in pattern

\* the whole match (group 0), what re.finditer would give
FindallWhole(w) == w

\* What re.findall yields for one match of a pattern with one group: group 1,
\* the scheme token as written, without "://" and the payload.
FindallItem(w) == Tok(w.sch)

\* re.findall(pattern, text, re.IGNORECASE): one item per match, in text order
RECURSIVE Findall(_, _)
Findall(pattern, text) ==
    IF text = <<>> THEN <<>>
    ELSE (IF Matches(pattern, Head(text)) THEN <<FindallItem(Head(text))>> ELSE <<>>)
         \o Findall(pattern, Tail(text))

\* extract_configs_from_text: list(set(found)); the order of a set's elements is
\* not fixed, so every order is a possible result.
extract_configs_from_text(text) == Perms(Range(Findall(PATTERN_FETCH, text)))

\* ---------------------------------------------------- process_single_config
\* Results are Optional[str]: <<>> for None, <<s>> for the string s.
MatchesProtocol(config, e) == \E al \in {e.scheme} \cup e.aliases : StartsWith(config, al)

RECURSIVE ProtocolLoop(_, _, _, _)
ProtocolLoop(config, reg, i, seen) ==
    IF i > Len(reg) THEN <<>>
    ELSE IF MatchesProtocol(config, reg[i])
         THEN IF ~reg[i].enabled THEN <<>>
              ELSE LET c2 == IF reg[i].scheme = "vmess" THEN clean_vmess_config(config) ELSE config
                       clean == clean_config(c2)
                   IN IF validate_protocol_config(clean, reg[i].scheme) /\ clean \notin seen
                      THEN <<clean>>
                      ELSE ProtocolLoop(c2, reg, i + 1, seen)
         ELSE ProtocolLoop(config, reg, i + 1, seen)

process_single_config(raw, reg, seen) ==
    ProtocolLoop(IF StartsWith(raw, "hy2") THEN normalize_hysteria2_protocol(raw) ELSE raw, reg, 1, seen)

\* ---------------------------------------------------------------- selectors
\* balance_protocols: proto_map, the bucket of the first key a config starts with
FirstKey(c, reg) ==
    LET hits == {i \in DOMAIN reg : StartsWith(c, reg[i].scheme)}
    IN IF hits = {} THEN 0 ELSE CHOOSE i \in hits : \A j \in hits : i <= j

\* a bucket filled from the front (insert(0, c) for append(c))
ProtoBucketReversed(configs, reg, i) ==
    LET b == SelectSeq(configs, LAMBDA c : FirstKey(c, reg) = i)
    IN [k \in 1..Len(b) |-> b[Len(b) + 1 - k]]

ProtoBucket(configs, reg, i) == SelectSeq(configs, LAMBDA c : FirstKey(c, reg) = i)

\* sorted(items, key=priority, reverse=True): stable, ties keep registry order
RECURSIVE InsertByPriority(_, _, _)
InsertByPriority(reg, sorted, i) ==
    IF sorted = <<>> THEN <<i>>
    ELSE IF reg[Head(sorted)].priority >= reg[i].priority
         THEN <<Head(sorted)>> \o InsertByPriority(reg, Tail(sorted), i)
         ELSE <<i>> \o sorted

RECURSIVE SortedFrom(_, _, _)
SortedFrom(reg, sorted, i) ==
    IF i > Len(reg) THEN sorted ELSE SortedFrom(reg, InsertByPriority(reg, sorted, i), i + 1)

\* the protocols left in registration order
RegistrationOrder(reg) == [i \in 1..Len(reg) |-> i]

sorted_protocols(reg) == SortedFrom(reg, <<>>, 1)

\* the loop of lines 168-173: extend by whole buckets, stop once 150 are held
RECURSIVE BalanceLoop(_, _, _, _)
BalanceLoop(configs, reg, order, final) ==
    IF order = <<>> THEN final
    ELSE LET ext == final \o ProtoBucket(configs, reg, Head(order))
         IN IF Len(ext) >= BALANCE_LIMIT THEN ext ELSE BalanceLoop(configs, reg, Tail(order), ext)

balance_protocols(configs, reg) ==
    Slice(BalanceLoop(configs, reg, sorted_protocols(reg), <<>>), BALANCE_LIMIT)

\* rank_and_filter: its own priority list
PRIORITY == <<"vless", "trojan", "hy2", "ss", "vmess">>

RankMatch(c, p) == StartsWith(c, p) \/ (p = "hy2" /\ StartsWith(c, "hysteria2"))

\* the inner loop of lines 100-102 for one priority p
RECURSIVE RankInner(_, _, _)
RankInner(configs, p, sorted_final) ==
    IF configs = <<>> THEN sorted_final
    ELSE LET c == Head(configs)
         IN RankInner(Tail(configs), p,
                      IF RankMatch(c, p) /\ c \notin Range(sorted_final)
                      THEN Append(sorted_final, c) ELSE sorted_final)

RECURSIVE RankLoop(_, _, _, _)
RankLoop(configs, limit, ps, sorted_final) ==
    IF ps = <<>> THEN sorted_final
    ELSE LET nxt == RankInner(configs, Head(ps), sorted_final)
         IN IF Len(nxt) >= limit THEN nxt ELSE RankLoop(configs, limit, Tail(ps), nxt)

rank_and_filter(configs, limit) == Slice(RankLoop(configs, limit, PRIORITY, <<>>), limit)

\* -------------------------------------------------------------------- state
VARIABLES
    prog,                 \* which program runs: "fetch_configs" or "config"
    SUPPORTED_PROTOCOLS,  \* config.SUPPORTED_PROTOCOLS
    MAX_RETRIES,          \* config.MAX_RETRIES
    RETRY_DELAY,          \* config.RETRY_DELAY
    channels,             \* config.get_enabled_channels(): the channels of the run, 1..n
    feed,                 \* per channel: the texts its source may answer with
    page,                 \* per channel: the response's text not yet scanned, a sequence of words
    pc,                   \* per channel: where its task stands
    attempt,              \* fetch_with_retry's loop index
    backoff,              \* fetch_with_retry's backoff
    requests,             \* per channel: session.get calls made
    sleeps,               \* per channel: time.sleep calls made
    slept,                \* per channel: total seconds slept
    raw_found,            \* per channel: the candidates being looped over
    idx,                  \* per channel: position of the loop in raw_found
    processed,            \* per channel: the candidate that passed the seen_configs test
    configs,              \* per channel: the task's accepted list
    health,               \* per channel: last update_channel_stats outcome
    outcome,              \* per channel: how its fetch ended: "none", "response", "failed"
    seen_configs,         \* self.seen_configs, shared by all tasks
    overtaken,            \* a task has ended before the task of an earlier channel
    phase,                \* the run: "running", "done", "crashed", or "select"/"selected"
    all_configs,          \* the merged list
    limit,                \* get_all's limit (SPECIFIC_CONFIG_COUNT or 150), 0 before it is set
    output                \* the list the aggregation returns

vars == <<prog, SUPPORTED_PROTOCOLS, MAX_RETRIES, RETRY_DELAY, channels, feed, page, pc,
          attempt, backoff, requests, sleeps, slept, raw_found, idx, processed, configs,
          health, outcome, seen_configs, overtaken, phase, all_configs, limit, output>>

cfgVars == <<prog, SUPPORTED_PROTOCOLS, MAX_RETRIES, RETRY_DELAY, channels, feed>>

retryVars == <<attempt, backoff, requests, sleeps, slept>>

loopVars == <<raw_found, idx, processed, configs, seen_configs>>

runVars == <<phase, all_configs, limit, output>>

\* the enabled channels of a run of NumChannels channels, in registry order
Channels == 1..NumChannels

Terminal == {"done", "raised"}

Executing(c) == pc[c] \notin {"pending"} \cup Terminal

\* a pool that starts a thread for every queued task
WorkerTakesNoCeiling(c, max_workers) ==
    /\ phase = "running"
    /\ pc[c] = "pending"
    /\ \A d \in channels : d < c => pc[d] # "pending"

\* A worker of the pool is free and every task queued before c has been taken.
WorkerTakes(c, max_workers) ==
    /\ phase = "running"
    /\ pc[c] = "pending"
    /\ \A d \in channels : d < c => pc[d] # "pending"
    /\ Cardinality({d \in channels : Executing(d)}) < max_workers

\* The words a response's text may hold
Words == {Cfg("vless", 1), Cfg("hy2", 1)}

Pages == SeqsUpTo(Words, MaxWords)

\* a task that is over is queued again
LeavesToPending(c, how) ==
    /\ pc' = [pc EXCEPT ![c] = "pending"]
    /\ page' = [page EXCEPT ![c] = <<>>]
    /\ overtaken' = (overtaken \/ \E d \in channels : d < c /\ pc[d] \notin Terminal)
    /\ raw_found' = [raw_found EXCEPT ![c] = <<>>]
    /\ idx' = [idx EXCEPT ![c] = 1]
    /\ processed' = [processed EXCEPT ![c] = <<>>]

\* The task of channel c is over: pc moves to its terminal value and the task's
\* local variables are gone.
Leaves(c, how) ==
    /\ pc' = [pc EXCEPT ![c] = how]
    /\ page' = [page EXCEPT ![c] = <<>>]
    /\ overtaken' = (overtaken \/ \E d \in channels : d < c /\ pc[d] \notin Terminal)
    /\ raw_found' = [raw_found EXCEPT ![c] = <<>>]
    /\ idx' = [idx EXCEPT ![c] = 1]
    /\ processed' = [processed EXCEPT ![c] = <<>>]

\* ---------------------------------------- fetch_configs.py: one channel task
\* a delay without the ceiling
WaitTimeUncapped(delay, b) == delay * b

\* min(self.config.RETRY_DELAY * backoff, 30)
WaitTime(delay, b) == Min(delay * b, BACKOFF_CAP)

\* fetch_configs_from_source is entered and calls fetch_with_retry
Start(c) ==
    /\ prog = "fetch_configs"
    /\ WorkerTakes(c, MAX_WORKERS_FETCH)
    /\ pc' = [pc EXCEPT ![c] = "fetching"]
    /\ attempt' = [attempt EXCEPT ![c] = 0]
    /\ backoff' = [backoff EXCEPT ![c] = 1]
    /\ UNCHANGED <<cfgVars, overtaken, page, requests, sleeps, slept, loopVars, health, outcome, runVars>>

\* one iteration of the retry loop whose request succeeds: the response is returned
RequestSucceeds(c) ==
    /\ prog = "fetch_configs"
    /\ pc[c] = "fetching"
    /\ attempt[c] < MAX_RETRIES
    /\ requests' = [requests EXCEPT ![c] = @ + 1]
    /\ \E text \in feed[c] : page' = [page EXCEPT ![c] = text]
    /\ outcome' = [outcome EXCEPT ![c] = "response"]
    /\ pc' = [pc EXCEPT ![c] = "fetched"]
    /\ UNCHANGED <<cfgVars, overtaken, attempt, backoff, sleeps, slept, loopVars, health, runVars>>

\* one iteration whose request raises requests.RequestException
RequestFails(c) ==
    /\ prog = "fetch_configs"
    /\ pc[c] = "fetching"
    /\ attempt[c] < MAX_RETRIES
    /\ requests' = [requests EXCEPT ![c] = @ + 1]
    /\ slept' = [slept EXCEPT ![c] = @ + WaitTime(RETRY_DELAY, backoff[c])]
    /\ sleeps' = [sleeps EXCEPT ![c] = @ + 1]
    /\ backoff' = [backoff EXCEPT ![c] = @ * 2]
    /\ attempt' = [attempt EXCEPT ![c] = @ + 1]
    /\ UNCHANGED <<cfgVars, overtaken, page, pc, loopVars, health, outcome, runVars>>

\* the loop is over: fetch_with_retry returns None, the task records the failure
RetriesExhausted(c) ==
    /\ prog = "fetch_configs"
    /\ pc[c] = "fetching"
    /\ attempt[c] >= MAX_RETRIES
    /\ health' = [health EXCEPT ![c] = "failure"]
    /\ outcome' = [outcome EXCEPT ![c] = "failed"]
    /\ Leaves(c, "done")
    /\ UNCHANGED <<cfgVars, retryVars, configs, seen_configs, runVars>>

\* the text is extracted: raw_found = extract_configs_from_text(content)
Extract(c) ==
    /\ prog = "fetch_configs"
    /\ pc[c] = "fetched"
    /\ \E found \in extract_configs_from_text(page[c]) :
           raw_found' = [raw_found EXCEPT ![c] = found]
    /\ page' = [page EXCEPT ![c] = <<>>]
    /\ idx' = [idx EXCEPT ![c] = 1]
    /\ pc' = [pc EXCEPT ![c] = "processing"]
    /\ UNCHANGED <<cfgVars, overtaken, retryVars, processed, configs, seen_configs, health, outcome,
                   runVars>>

\* processed = self.process_single_config(raw, channel); an exception inside it
\* is swallowed by its bare except and yields None
ProcessSingle(c) ==
    /\ prog = "fetch_configs"
    /\ pc[c] = "processing"
    /\ idx[c] <= Len(raw_found[c])
    /\ \E r \in {process_single_config(raw_found[c][idx[c]], SUPPORTED_PROTOCOLS, seen_configs), <<>>} :
           processed' = [processed EXCEPT ![c] = r]
    /\ pc' = [pc EXCEPT ![c] = "checked"]
    /\ UNCHANGED <<cfgVars, overtaken, page, retryVars, raw_found, idx, configs, seen_configs, health,
                   outcome, runVars>>

\* an insertion that leaves the set as it was
SeenAddNothing(seen, accepted) == seen

\* self.seen_configs.add(...) of what was accepted (nothing when None)
SeenAdd(seen, accepted) == seen \cup Range(accepted)

\* if processed: configs.append(processed); self.seen_configs.add(processed)
Accept(c) ==
    /\ prog = "fetch_configs"
    /\ pc[c] = "checked"
    /\ configs' = [configs EXCEPT ![c] = @ \o processed[c]]
    /\ seen_configs' = SeenAdd(seen_configs, processed[c])
    /\ processed' = [processed EXCEPT ![c] = <<>>]
    /\ idx' = [idx EXCEPT ![c] = @ + 1]
    /\ pc' = [pc EXCEPT ![c] = "processing"]
    /\ UNCHANGED <<cfgVars, overtaken, page, retryVars, raw_found, health, outcome, runVars>>

\* the loop is over: update_channel_stats(channel, True, ...), return configs
Finish(c) ==
    /\ prog = "fetch_configs"
    /\ pc[c] = "processing"
    /\ idx[c] > Len(raw_found[c])
    /\ health' = [health EXCEPT ![c] = "success"]
    /\ Leaves(c, "done")
    /\ UNCHANGED <<cfgVars, retryVars, configs, seen_configs, outcome, runVars>>

\* fetch_configs_from_source has no handler of its own: an exception other than
\* RequestException in the request, or any exception in the markup parsing, the
\* extraction, the metrics or the health update, leaves the task
Escapes(c) ==
    /\ prog = "fetch_configs"
    /\ pc[c] \in {"fetching", "fetched", "processing", "checked"}
    /\ Leaves(c, "raised")
    /\ UNCHANGED <<cfgVars, retryVars, configs, seen_configs, health, outcome, runVars>>

\* ----------------------------------------------- config.py: one channel task
\* fetch_from_channel is entered and issues its one request
CStart(c) ==
    /\ prog = "config"
    /\ WorkerTakes(c, MAX_WORKERS_CONFIG)
    /\ pc' = [pc EXCEPT ![c] = "fetching"]
    /\ UNCHANGED <<cfgVars, overtaken, page, retryVars, loopVars, health, outcome, runVars>>

\* status 200: the fresh messages' text is scanned, found = re.findall(...)
GetOk(c) ==
    /\ prog = "config"
    /\ pc[c] = "fetching"
    /\ requests' = [requests EXCEPT ![c] = @ + 1]
    /\ \E text \in feed[c] :
           raw_found' = [raw_found EXCEPT ![c] = Findall(PATTERN_CONFIG, text)]
    /\ idx' = [idx EXCEPT ![c] = 1]
    /\ outcome' = [outcome EXCEPT ![c] = "response"]
    /\ pc' = [pc EXCEPT ![c] = "processing"]
    /\ UNCHANGED <<cfgVars, overtaken, page, attempt, backoff, sleeps, slept, processed, configs,
                   seen_configs, health, runVars>>

\* any other status: return []
GetNot200(c) ==
    /\ prog = "config"
    /\ pc[c] = "fetching"
    /\ requests' = [requests EXCEPT ![c] = @ + 1]
    /\ outcome' = [outcome EXCEPT ![c] = "failed"]
    /\ Leaves(c, "done")
    /\ UNCHANGED <<cfgVars, attempt, backoff, sleeps, slept, configs, seen_configs, health,
                   runVars>>

\* the candidate test without the question whether the string was seen
CheckCandidateAnySeen(raw, reg, seen) ==
    LET clean == clean_config(raw)
        p == SchemeOf(clean)
        proto == IF p = "hy2" THEN "hysteria2" ELSE p
    IN IF is_protocol_enabled(reg, proto) THEN <<clean>> ELSE <<>>

\* the candidate test without the question whether the protocol is enabled
CheckCandidateAnyProtocol(raw, reg, seen) ==
    LET clean == clean_config(raw)
    IN IF clean \notin seen THEN <<clean>> ELSE <<>>

\* lines 71-75 for one candidate: clean, proto, the enabled and seen_configs tests
CheckCandidate(raw, reg, seen) ==
    LET clean == clean_config(raw)
        p == SchemeOf(clean)
        proto == IF p = "hy2" THEN "hysteria2" ELSE p
    IN IF is_protocol_enabled(reg, proto) /\ clean \notin seen THEN <<clean>> ELSE <<>>

Check(c) ==
    /\ prog = "config"
    /\ pc[c] = "processing"
    /\ idx[c] <= Len(raw_found[c])
    /\ processed' = [processed EXCEPT ![c] =
                         CheckCandidate(raw_found[c][idx[c]], SUPPORTED_PROTOCOLS, seen_configs)]
    /\ pc' = [pc EXCEPT ![c] = "checked"]
    /\ UNCHANGED <<cfgVars, overtaken, page, retryVars, raw_found, idx, configs, seen_configs, health,
                   outcome, runVars>>

\* configs.append(clean); self.seen_configs.add(clean), when the tests passed
AppendAdd(c) ==
    /\ prog = "config"
    /\ pc[c] = "checked"
    /\ configs' = [configs EXCEPT ![c] = @ \o processed[c]]
    /\ seen_configs' = SeenAdd(seen_configs, processed[c])
    /\ processed' = [processed EXCEPT ![c] = <<>>]
    /\ idx' = [idx EXCEPT ![c] = @ + 1]
    /\ pc' = [pc EXCEPT ![c] = "processing"]
    /\ UNCHANGED <<cfgVars, overtaken, page, retryVars, raw_found, health, outcome, runVars>>

\* the loop is over: return configs
Return(c) ==
    /\ prog = "config"
    /\ pc[c] = "processing"
    /\ idx[c] > Len(raw_found[c])
    /\ Leaves(c, "done")
    /\ UNCHANGED <<cfgVars, retryVars, configs, seen_configs, health, outcome, runVars>>

\* except: pass -- any exception inside the try block (the request included)
\* ends the task, which returns what it has accepted so far
Swallow(c) ==
    /\ prog = "config"
    /\ pc[c] \in {"fetching", "processing", "checked"}
    /\ requests' = [requests EXCEPT ![c] = IF pc[c] = "fetching" THEN @ + 1 ELSE @]
    /\ outcome' = [outcome EXCEPT ![c] = IF pc[c] = "fetching" THEN "failed" ELSE @]
    /\ Leaves(c, "done")
    /\ UNCHANGED <<cfgVars, attempt, backoff, sleeps, slept, configs, seen_configs, health,
                   runVars>>

\* ------------------------------------------------------------- aggregation
\* results taken as soon as one task is over
SomeTerminal == \E c \in channels : pc[c] \in Terminal

\* list(executor.map(...)) and the with block: every task is over
AllTerminal == \A c \in channels : pc[c] \in Terminal

\* the lists taken from the last channel to the first
MergedLastFirst == Concat([k \in channels |-> configs[Cardinality(channels) + 1 - k]])

\* for res in results: all_configs.extend(res)
Merged == Concat([c \in channels |-> configs[c]])

\* fetch_all_configs after the pool: list(executor.map(...)) re-raises a task's
\* exception; otherwise merge, and balance when the merged list is not empty.
\* The call self.balance_protocols is bound to the function of line 149.
fetch_all_configs ==
    /\ prog = "fetch_configs"
    /\ phase = "running"
    /\ AllTerminal
    /\ IF \E c \in channels : pc[c] = "raised"
       THEN /\ phase' = "crashed"
            /\ UNCHANGED <<all_configs, output>>
       ELSE /\ phase' = "done"
            /\ all_configs' = Merged
            /\ output' = IF Merged # <<>> THEN balance_protocols(Merged, SUPPORTED_PROTOCOLS) ELSE <<>>
    /\ UNCHANGED <<cfgVars, overtaken, page, pc, retryVars, loopVars, health, outcome, limit>>

\* SPECIFIC_CONFIG_COUNT if not USE_MAXIMUM_POWER else 150
Limits == (0..MaxLen) \cup {MAXIMUM_POWER_LIMIT}

\* get_all after the pool: merge, set the limit, rank_and_filter(all_configs, limit)
get_all ==
    /\ prog = "config"
    /\ phase = "running"
    /\ AllTerminal
    /\ phase' = "done"
    /\ all_configs' = Merged
    /\ \E lim \in Limits :
          /\ limit' = lim
          /\ output' = rank_and_filter(Merged, lim)
    /\ UNCHANGED <<cfgVars, overtaken, page, pc, retryVars, loopVars, health, outcome>>

\* ------------------------------------------------------------ specification
TaskInit ==
    /\ page = [c \in channels |-> <<>>]
    /\ pc = [c \in channels |-> "pending"]
    /\ attempt = [c \in channels |-> 0]
    /\ backoff = [c \in channels |-> 1]
    /\ requests = [c \in channels |-> 0]
    /\ sleeps = [c \in channels |-> 0]
    /\ slept = [c \in channels |-> 0]
    /\ raw_found = [c \in channels |-> <<>>]
    /\ idx = [c \in channels |-> 1]
    /\ processed = [c \in channels |-> <<>>]
    /\ configs = [c \in channels |-> <<>>]
    /\ health = [c \in channels |-> "none"]
    /\ outcome = [c \in channels |-> "none"]
    /\ seen_configs = {}
    /\ overtaken = FALSE
    /\ output = <<>>

Init ==
    /\ channels = Channels
    /\ feed = [c \in Channels |-> Pages]
    /\ TaskInit
    /\ phase = "running"
    /\ all_configs = <<>>
    /\ limit = 0
    /\ prog \in {"fetch_configs", "config"}
    /\ SUPPORTED_PROTOCOLS = RegistryA
    /\ MAX_RETRIES = 2
    /\ RETRY_DELAY = 20

FetchTask(c) ==
    \/ Start(c) \/ RequestSucceeds(c) \/ RequestFails(c) \/ RetriesExhausted(c)
    \/ Extract(c) \/ ProcessSingle(c) \/ Accept(c) \/ Finish(c) \/ Escapes(c)

ConfigTask(c) ==
    \/ CStart(c) \/ GetOk(c) \/ GetNot200(c) \/ Check(c) \/ AppendAdd(c) \/ Return(c)
    \/ Swallow(c)

Next ==
    \/ \E c \in channels : FetchTask(c)
    \/ \E c \in channels : ConfigTask(c)
    \/ fetch_all_configs
    \/ get_all

Spec == Init /\ [][Next]_vars

\* ------------------------------------------------- the selectors on their own
\* A string a channel task of the program can accept under registry reg: one
\* that passes the task's own tests unchanged when nothing has been seen yet.
Acceptable(pr, reg, s) ==
    IF pr = "fetch_configs" THEN process_single_config(s, reg, {}) = <<s>>
    ELSE CheckCandidate(s, reg, {}) = <<s>>

SelWords == {Cfg("vless", 1), Cfg("vless", 2), Cfg("trojan", 1), Cfg("ss", 1),
             Cfg("hysteria2", 1), Cfg("tuic", 1), Tok("vless")}

Block(t, n) == [i \in 1..n |-> Cfg(t, i)]

\* The same records taken in rounds: the r-th ss, trojan and vless record of round r,
\* as far as each exists.  PlaceOf is a record's position in that list.
TypeRank(t) == IF t = "ss" THEN 0 ELSE IF t = "trojan" THEN 1 ELSE 2

CountOf(a, b, c, t) == IF t = "ss" THEN c ELSE IF t = "trojan" THEN b ELSE a

BeforeInRounds(a, b, c, u, t, r) ==
    Min(CountOf(a, b, c, u), IF TypeRank(u) < TypeRank(t) THEN r ELSE r - 1)

PlaceOf(a, b, c, t, r) ==
    1 + BeforeInRounds(a, b, c, "ss", t, r) + BeforeInRounds(a, b, c, "trojan", t, r)
      + BeforeInRounds(a, b, c, "vless", t, r)

InRounds(a, b, c) ==
    LET recs == {<<t, r>> \in {"ss", "trojan", "vless"} \X (1..151) : r <= CountOf(a, b, c, t)}
    IN [k \in 1..(a + b + c) |->
           LET x == CHOOSE y \in recs : PlaceOf(a, b, c, y[1], y[2]) = k IN Cfg(x[1], x[2])]

BigLists ==
    UNION {{Block("ss", c) \o Block("trojan", b) \o Block("vless", a), InRounds(a, b, c)} :
           <<a, b, c>> \in {0, 80, 151} \X {70, 100} \X {0, 50}}

SelInputs(pr, reg) ==
    SeqsUpTo({s \in SelWords : Acceptable(pr, reg, s)}, MaxLen)
    \cup (IF pr = "fetch_configs" THEN BigLists ELSE {})

SelInit ==
    /\ channels = Channels
    /\ feed = [c \in Channels |-> Pages]
    /\ TaskInit
    /\ phase = "select"
    /\ prog \in {"fetch_configs", "config"}
    /\ SUPPORTED_PROTOCOLS \in Registries
    /\ MAX_RETRIES = 2
    /\ RETRY_DELAY = 20
    /\ \E m \in SelInputs(prog, SUPPORTED_PROTOCOLS) :
          /\ all_configs = m
          /\ limit \in (IF prog = "fetch_configs" THEN {0} ELSE Limits)

\* balance_protocols applied to the merged list
SelectBalance ==
    /\ prog = "fetch_configs"
    /\ phase = "select"
    /\ output' = balance_protocols(all_configs, SUPPORTED_PROTOCOLS)
    /\ phase' = "selected"
    /\ UNCHANGED <<cfgVars, overtaken, page, pc, retryVars, loopVars, health, outcome, all_configs, limit>>

\* rank_and_filter applied to the merged list and the limit
SelectRank ==
    /\ prog = "config"
    /\ phase = "select"
    /\ output' = rank_and_filter(all_configs, limit)
    /\ phase' = "selected"
    /\ UNCHANGED <<cfgVars, overtaken, page, pc, retryVars, loopVars, health, outcome, all_configs, limit>>

SelNext == SelectBalance \/ SelectRank

SelSpec == SelInit /\ [][SelNext]_vars

\* ------------------------------------------------------- claims C3 .. C6
Selected == phase = "selected"

\* the limit the selector of the running program works to
SelLimit == IF prog = "fetch_configs" THEN BALANCE_LIMIT ELSE limit

Count(seq, x) == Cardinality({i \in DOMAIN seq : seq[i] = x})

\* the place of c's protocol in rank_and_filter's priority list, 0 when it has none
RankPlace(c) ==
    LET hits == {i \in DOMAIN PRIORITY : RankMatch(c, PRIORITY[i])}
    IN IF hits = {} THEN 0 ELSE CHOOSE i \in hits : \A j \in hits : i <= j

\* c belongs to a protocol the running selector knows
Classified(c) ==
    IF prog = "fetch_configs" THEN FirstKey(c, SUPPORTED_PROTOCOLS) # 0 ELSE RankPlace(c) # 0

\* the priority of c's protocol for the running selector, higher is preferred: the
\* registry's priority in balance_protocols, the place in the list in rank_and_filter
Prio(c) ==
    IF prog = "fetch_configs" THEN SUPPORTED_PROTOCOLS[FirstKey(c, SUPPORTED_PROTOCOLS)].priority
    ELSE Len(PRIORITY) - RankPlace(c)

\* C3: the list the selector returns is never longer than the limit (150 in
\* balance_protocols, the limit argument in rank_and_filter).
C3_OutputWithinLimit == Selected => Len(output) <= SelLimit

\* C3 witness: balance_protocols was handed more than 150 records and returned 150.
C3_Witness ==
    /\ Selected
    /\ prog = "fetch_configs"
    /\ Len(all_configs) > BALANCE_LIMIT
    /\ Len(output) = BALANCE_LIMIT

WalkPlace(reg, i) ==
    1 + Cardinality({j \in DOMAIN reg :
                        \/ reg[j].priority > reg[i].priority
                        \/ (reg[j].priority = reg[i].priority /\ j < i)})

BucketOf(seq, reg, i) == SelectSeq(seq, LAMBDA c : StartsWith(c, reg[i].scheme))

RECURSIVE SizeBefore(_, _, _, _)
SizeBefore(seq, reg, i, j) ==
    IF j > Len(reg) THEN 0
    ELSE (IF WalkPlace(reg, j) < WalkPlace(reg, i) THEN Len(BucketOf(seq, reg, j)) ELSE 0)
         + SizeBefore(seq, reg, i, j + 1)

\* how many records of bucket i fit: all of it, or what is left of the limit
Quota(seq, reg, i, lim) ==
    LET left == lim - SizeBefore(seq, reg, i, 1)
    IN IF left <= 0 THEN 0 ELSE Min(left, Len(BucketOf(seq, reg, i)))

EnabledRecords(seq, reg) ==
    SelectSeq(seq, LAMBDA c : \E i \in DOMAIN reg : StartsWith(c, reg[i].scheme) /\ reg[i].enabled)

\* C5: handed at least 150 records of enabled protocols, balance_protocols
\* returns exactly 150: every bucket before the overflowing one in full, the first
\* records of the overflowing bucket in merged-list order, nothing of a later bucket,
\* the buckets in priority order.
C5_ExactFill ==
    (Selected /\ prog = "fetch_configs"
     /\ Len(EnabledRecords(all_configs, SUPPORTED_PROTOCOLS)) >= BALANCE_LIMIT)
    => /\ Len(output) = BALANCE_LIMIT
       /\ \A i \in DOMAIN SUPPORTED_PROTOCOLS :
              BucketOf(output, SUPPORTED_PROTOCOLS, i)
              = Take(BucketOf(all_configs, SUPPORTED_PROTOCOLS, i),
                     Quota(all_configs, SUPPORTED_PROTOCOLS, i, BALANCE_LIMIT))
       /\ LET place == [x \in DOMAIN output |->
                            WalkPlace(SUPPORTED_PROTOCOLS, FirstKey(output[x], SUPPORTED_PROTOCOLS))]
          IN \A x, y \in DOMAIN output : place[x] < place[y] => x < y

\* C5 witness: example A, 80 vless, 100 trojan and 50 ss records taken in rounds,
\* priorities vless 3 > trojan 2 > ss 1: 80 vless, then the first 70 trojan.
C5_Witness ==
    /\ Selected
    /\ prog = "fetch_configs"
    /\ SUPPORTED_PROTOCOLS = RegistryA
    /\ all_configs = InRounds(80, 100, 50)
    /\ output = Block("vless", 80) \o Block("trojan", 70)

\* C6: handed fewer records than the limit, the selector returns every record of
\* the merged list, none dropped and none added.
C6_AllReturned ==
    (Selected /\ Len(all_configs) < SelLimit)
    => \A c \in Range(all_configs) \cup Range(output) : Count(output, c) = Count(all_configs, c)

\* C6 holds of balance_protocols
C6_BalanceReturnsAll == prog = "fetch_configs" => C6_AllReturned

\* ------------------------------------------------ fetch_with_retry on its own
\* fetch_with_retry over every retry setting, in the task of the first channel
\* the pool starts.
RetryDelays == {1, 8, 20, 40}

RetryInit ==
    /\ channels = Channels
    /\ feed = [c \in Channels |-> Pages]
    /\ TaskInit
    /\ phase = "running"
    /\ all_configs = <<>>
    /\ prog = "fetch_configs"
    /\ SUPPORTED_PROTOCOLS = RegistryA
    /\ MAX_RETRIES \in 1..MaxRetriesBound
    /\ RETRY_DELAY \in RetryDelays
    /\ limit = 0

RetryNext == FetchTask(1)

RetrySpec == RetryInit /\ [][RetryNext]_vars

\* ------------------------------------------------------- claims C7, C8
\* section 4.1: nextDelay(i) = min(cap, d * 2^i)
NextDelay(i) == Min(BACKOFF_CAP, RETRY_DELAY * 2^i)

RECURSIVE SumNextDelay(_)
SumNextDelay(k) == IF k = 0 THEN 0 ELSE SumNextDelay(k - 1) + NextDelay(k - 1)

\* C7: when the first k < MAX_RETRIES attempts fail and attempt k+1 succeeds,
\* fetch_with_retry has made exactly k+1 requests and has slept, in total, the sum
\* of min(30, RETRY_DELAY * 2^i) over i = 0..k-1.
C7_RetryTermination ==
    \A c \in Channels :
        outcome[c] = "response" =>
            /\ attempt[c] < MAX_RETRIES
            /\ requests[c] = attempt[c] + 1
            /\ sleeps[c] = attempt[c]
            /\ slept[c] = SumNextDelay(attempt[c])

\* C7 witness: a fetch that succeeded at its third attempt, one of its two waits cut
\* to the ceiling.
C7_Witness ==
    \E c \in Channels :
        /\ pc[c] = "fetched"
        /\ attempt[c] = 2
        /\ RETRY_DELAY < BACKOFF_CAP
        /\ slept[c] = RETRY_DELAY + BACKOFF_CAP

\* C8: a fetch whose MAX_RETRIES attempts all fail has waited only between the
\* attempts, MAX_RETRIES - 1 times, and not after the last one.
C8_NoWaitAfterLastAttempt ==
    \A c \in Channels :
        outcome[c] = "failed" =>
            /\ requests[c] = MAX_RETRIES
            /\ sleeps[c] = MAX_RETRIES - 1

\* ------------------------------------------------- claims C1, C2, C9, C10
\* C1: a string is in the accepted list of at most one channel.
C1_AcceptedByOneChannel ==
    \A c, d \in Channels : c # d => Range(configs[c]) \cap Range(configs[d]) = {}

NoDuplicates(seq) == \A i, j \in DOMAIN seq : seq[i] = seq[j] => i = j

\* C2: the list a finished run returns holds no string twice.
C2_OutputHasNoDuplicates == phase = "done" => NoDuplicates(output)

\* C2 witness: a run has returned, and two of its channels had accepted the same
\* string, so that the merged list held it twice.
C2_Witness == phase = "done" /\ ~NoDuplicates(all_configs)

\* C9: no exception leaves a channel task, and the run does not end in one.
C9_NoExceptionEscapes == phase # "crashed" /\ \A c \in Channels : pc[c] # "raised"

\* C10: a channel whose every fetch attempt failed ends with no record and a failed
\* health update, and the step that ends it changes neither seen_configs nor any
\* channel's accepted list.
C10_FailedChannel ==
    [][\A c \in Channels :
           (outcome'[c] = "failed" /\ outcome[c] # "failed") =>
               /\ pc'[c] = "done"
               /\ configs'[c] = <<>>
               /\ health'[c] = "failure"
               /\ seen_configs' = seen_configs
               /\ configs' = configs]_vars

\* C10 holds of fetch_configs.py
C10_FetchConfigsFailedChannel ==
    [][prog = "fetch_configs" =>
           \A c \in Channels :
               (outcome'[c] = "failed" /\ outcome[c] # "failed") =>
                   /\ pc'[c] = "done"
                   /\ configs'[c] = <<>>
                   /\ health'[c] = "failure"
                   /\ seen_configs' = seen_configs
                   /\ configs' = configs]_vars

\* ------------------------------------------------------ runs over chosen feeds
\* Two channels whose sources hold the same payload, one spelled hy2://, the other
\* hysteria2://; every further source answers with an empty text.
AliasFeed ==
    [c \in Channels |-> IF c = 1 THEN {<<Cfg("hy2", 1)>>}
                        ELSE IF c = 2 THEN {<<Cfg("hysteria2", 1)>>} ELSE {<<>>}]

\* The first source answers with up to MaxWords + 1 configs, vless or vmess, the
\* second with up to MaxWords configs, vless or wireguard, every further source
\* with an empty text.
MixedFeed ==
    [c \in Channels |-> IF c = 1 THEN SeqsUpTo({Cfg("vless", 1), Cfg("vmess", 1)}, MaxWords + 1)
                        ELSE IF c = 2 THEN SeqsUpTo({Cfg("vless", 1), Cfg("wireguard", 1)}, MaxWords)
                        ELSE {<<>>}]

Feeds == {AliasFeed, MixedFeed}

FeedInit ==
    /\ channels = Channels
    /\ feed \in Feeds
    /\ TaskInit
    /\ phase = "running"
    /\ all_configs = <<>>
    /\ limit = 0
    /\ prog \in {"fetch_configs", "config"}
    /\ SUPPORTED_PROTOCOLS \in Registries
    /\ MAX_RETRIES = 1
    /\ RETRY_DELAY = 20

FeedSpec == FeedInit /\ [][Next]_vars

\* ------------------------------------------------------------- claim C11
\* the strings held by the channels' accepted lists, the merged list and the output
Held == UNION {Range(configs[c]) : c \in channels} \cup Range(all_configs) \cup Range(output)

\* s is spelled with the scheme, or an alias, of a protocol the registry has enabled
OfEnabledProtocol(reg, s) ==
    \E i \in DOMAIN reg :
        /\ Lower(s.sch) \in {reg[i].scheme} \cup reg[i].aliases
        /\ reg[i].enabled

\* C11: every string in a channel's accepted list, in the merged list and in the
\* output belongs to a protocol that the registry holds and has enabled.
C11_OnlyEnabledProtocols == \A s \in Held : OfEnabledProtocol(SUPPORTED_PROTOCOLS, s)

\* C11 witness: a channel task is through its candidates, has accepted one and has
\* passed over one of a protocol that is disabled or not registered.
C11_Witness ==
    \E c \in channels :
        /\ pc[c] = "processing"
        /\ idx[c] > Len(raw_found[c])
        /\ configs[c] # <<>>
        /\ \E i \in DOMAIN raw_found[c] : ~OfEnabledProtocol(SUPPORTED_PROTOCOLS, raw_found[c][i])

\* -------------------------------------------------------- claims C12, C13
\* C12: the channel whose source holds hy2://X and the channel whose source holds
\* hysteria2://X are treated alike: each gets one candidate out of the extraction,
\* and the candidate of the one passes the task's tests exactly when the candidate
\* of the other does.
C12_AliasTreatedAlike ==
    feed = AliasFeed =>
        /\ (pc[1] = "processing" /\ pc[2] = "processing" /\ idx[1] = 1 /\ idx[2] = 1)
           => Len(raw_found[1]) = Len(raw_found[2])
        /\ (prog = "config" /\ pc[1] = "checked" /\ pc[2] = "checked" /\ seen_configs = {})
           => ((processed[1] = <<>>) <=> (processed[2] = <<>>))

\* C12 holds of config.py
C12_ConfigAliasTreatedAlike == prog = "config" => C12_AliasTreatedAlike

\* the places of the output that hold one of the two spellings of the payload
Spellings(seq) == {i \in DOMAIN seq : seq[i] \in {Cfg("hy2", 1), Cfg("hysteria2", 1)}}

\* C13: with hysteria2 enabled, when one channel's source holds hy2://X and another's
\* hysteria2://X and the run has taken them up (fetch_configs.py: both tasks ended
\* in success; config.py: the merged list is not empty and the limit is 150),
\* exactly one of the two is in the output.
C13_OneSpellingSurvives ==
    (/\ feed = AliasFeed
     /\ phase = "done"
     /\ is_protocol_enabled(SUPPORTED_PROTOCOLS, "hysteria2")
     /\ prog = "fetch_configs" => (health[1] = "success" /\ health[2] = "success")
     /\ prog = "config" => (all_configs # <<>> /\ limit = MAXIMUM_POWER_LIMIT))
    => Cardinality(Spellings(output)) = 1

\* -------------------------------------------------------- claims C14, C15
\* the accepted lists of channel c and of every channel after it, one after another
RECURSIVE SegmentsFrom(_)
SegmentsFrom(c) == IF c \in channels THEN configs[c] \o SegmentsFrom(c + 1) ELSE <<>>

C15_SelectsAfterAllTasks ==
    (phase = "done" \/ all_configs # <<>> \/ output # <<>>)
    => \A c \in channels : pc[c] = "done" \/ pc[c] = "raised"

\* C15 witness: a finished run whose tasks did not end in registry order and whose
\* merged list is not empty.
C15_Witness ==
    /\ phase = "done"
    /\ overtaken
    /\ all_configs # <<>>

\* ------------------------------------------------------------- claim C16
\* The threads of the pool and the main thread are scheduled by the operating
\* system, every request has a timeout and every sleep an end: a task that can
\* take a step takes one, and so does the aggregation.
Fairness ==
    /\ \A c \in Channels : WF_vars(FetchTask(c) \/ ConfigTask(c))
    /\ WF_vars(fetch_all_configs \/ get_all)

\* a run of either program in which every source that answers holds one config
FairInit ==
    /\ channels = Channels
    /\ feed = [c \in Channels |-> {<<Cfg("vless", 1)>>}]
    /\ TaskInit
    /\ phase = "running"
    /\ all_configs = <<>>
    /\ limit = 0
    /\ prog \in {"fetch_configs", "config"}
    /\ SUPPORTED_PROTOCOLS = RegistryA
    /\ MAX_RETRIES = 2
    /\ RETRY_DELAY = 20

FairSpec == FairInit /\ [][Next]_vars /\ Fairness

\* Pending 0, Fetching 1, Fetched (the response is held and worked on) 2,
\* terminal (FetchFailed or Processed) 3
StageOf(p) ==
    IF p = "pending" THEN 0
    ELSE IF p = "fetching" THEN 1
    ELSE IF p \in {"fetched", "processing", "checked"} THEN 2 ELSE 3

\* one step of channel c keeps to Pending -> Fetching -> {FetchFailed | Fetched} ->
\* Processed: it never goes back, Pending is left for Fetching only, a request is
\* made in Fetching only, and a terminal task stays as it is
StageStep(c) ==
    /\ StageOf(pc'[c]) >= StageOf(pc[c])
    /\ (pc[c] = "pending" /\ pc'[c] # "pending") => pc'[c] = "fetching"
    /\ requests'[c] # requests[c] => (pc[c] = "fetching" /\ requests'[c] = requests[c] + 1)
    /\ (StageOf(pc[c]) = 3 /\ outcome[c] = "failed") => outcome'[c] = "failed"
    /\ StageOf(pc[c]) = 3 => (pc'[c] = pc[c] /\ requests'[c] = requests[c])

RunOver == phase # "running" /\ \A c \in Channels : StageOf(pc[c]) = 3

\* C16: every channel task moves along Pending -> Fetching -> {FetchFailed |
\* Fetched} -> Processed and in no other way, requests are made in Fetching only
\* and at most MAX_RETRIES of them, a terminal task is never fetched again, and
\* under fair scheduling every task becomes terminal and the run ends.
C16_ChannelStateMachine ==
    /\ [][\A c \in Channels : StageStep(c)]_vars
    /\ [](\A c \in Channels : requests[c] <= MAX_RETRIES)
    /\ <>[]RunOver

\* C16 witness: a finished run with a channel that used every attempt it had, got
\* its response at the last one and went on to the end of its task.
C16_Witness ==
    /\ phase = "done"
    /\ \E c \in Channels :
           /\ pc[c] = "done"
           /\ outcome[c] = "response"
           /\ requests[c] = MAX_RETRIES
           /\ sleeps[c] = MAX_RETRIES - 1

\* ------------------------------------------------------------- claim C17
\* fetch_all_configs over one channel more than its pool has workers, every source
\* failing: the tasks start, retry and give up.
PoolChannels == 1..(MAX_WORKERS_FETCH + 1)

PoolInit ==
    /\ channels = PoolChannels
    /\ feed = [c \in PoolChannels |-> {<<>>}]
    /\ TaskInit
    /\ phase = "running"
    /\ all_configs = <<>>
    /\ limit = 0
    /\ prog = "fetch_configs"
    /\ SUPPORTED_PROTOCOLS = RegistryA
    /\ MAX_RETRIES = 1
    /\ RETRY_DELAY = 20

PoolNext == \E c \in channels : Start(c) \/ RequestFails(c) \/ RetriesExhausted(c)

PoolSpec == PoolInit /\ [][PoolNext]_vars

\* the tasks a worker is running: fetching, sleeping between attempts or processing
Running == {c \in channels : pc[c] \in {"fetching", "fetched", "processing", "checked"}}

PoolSize == IF prog = "fetch_configs" THEN MAX_WORKERS_FETCH ELSE MAX_WORKERS_CONFIG

\* C17: at every moment at most as many tasks are running as the pool has workers,
\* a task that has slept after a failed attempt counted among them, and no channel's
\* task is started a second time.
C17_PoolCeiling ==
    /\ [](Cardinality(Running) <= PoolSize)
    /\ [][\A c \in channels : pc[c] # "pending" => pc'[c] # "pending"]_vars

\* C17 witness: every worker is taken, one of the running tasks has slept after a
\* failed attempt, and a task is still queued.
C17_Witness ==
    /\ Cardinality(Running) = PoolSize
    /\ \E c \in Running : sleeps[c] > 0
    /\ \E c \in channels : pc[c] = "pending"

\* ------------------------------------------------------------------ claim C18
\* C18: what the extraction hands to the processing loop is the set of the
\* text's full matches: every word of the text that is a supported scheme,
\* "://" and a payload is among the candidates, whole, and nothing else is.
C18_ExtractsFullCandidates ==
    [][\A c \in channels :
          (prog = "fetch_configs" /\ pc[c] = "fetched" /\ pc'[c] = "processing")
              => /\ Range(raw_found'[c]) = {w \in Range(page[c]) : Matches(PATTERN_FETCH, w)}
                 /\ NoDuplicates(raw_found'[c])]_vars

\* ------------------------------------------------------------------ claim C19
\* C19: the accepted list of a channel holds no string twice, whatever the
\* other channels' tasks do in between.
C19_NoDuplicateWithinChannel == \A c \in channels : NoDuplicates(configs[c])

\* C19 witness: a task has gone through two candidates that clean to the same
\* string and accepted one of them, while another channel's task accepted the
\* same string.
C19_Witness ==
    \E c, d \in channels :
        /\ c # d
        /\ pc[c] = "processing"
        /\ idx[c] = 3
        /\ clean_config(raw_found[c][1]) = clean_config(raw_found[c][2])
        /\ configs[c] = <<clean_config(raw_found[c][1])>>
        /\ clean_config(raw_found[c][1]) \in Range(configs[d])

\* ------------------------------------------------------------------ claim C20
\* C20: seen_configs never loses a string; it holds every string of every
\* channel's accepted list; and in a finished run it holds every string of the
\* merged list and of the output.
C20_SeenOnlyGrowsAndCovers ==
    /\ [][seen_configs \subseteq seen_configs']_vars
    /\ [](\A c \in channels : Range(configs[c]) \subseteq seen_configs)
    /\ [](phase = "done" => Range(all_configs) \cup Range(output) \subseteq seen_configs)

\* C20 witness: a finished run whose merged list holds two different strings
C20_Witness ==
    /\ phase = "done"
    /\ Cardinality(Range(all_configs)) >= 2
    /\ Range(all_configs) \subseteq seen_configs
====
